---- MODULE Spec2Model ----
(***************************************************************************)
(* Model of src/app.js: the lunch-notification subscription service.      *)
(*                                                                         *)
(* Node runs one callback (request handler, promise reaction, I/O         *)
(* completion) at a time, so every action below is one such callback run  *)
(* to completion, together with the promise reactions (microtasks) it     *)
(* triggers.  External calls (notify.addBinding, cater2me.loadTodaysMenu, *)
(* fs.writeFile, the sends) are started by one action and completed by    *)
(* another, with the outcome chosen nondeterministically.                 *)
(*                                                                         *)
(* Identities are ordinary user names: names that a plain JavaScript      *)
(* object inherits from Object.prototype are not among them.              *)
(***************************************************************************)
EXTENDS Integers, FiniteSets, Sequences, Bags, TLC

\* ------------------------------------------------------------------ bounds
MaxTicks == 3
MaxRequests == 2
MaxGcm == 1
MaxDispatch == 2

\* ------------------------------------------------------------ value spaces
Identities == {"jdoe", "asmith"}
Menus == {"menuA", "menuB"}
null == "null"
undefined == "undefined"
WriteError == "EIO"

\* RegistrationCommand.VALID_CHANNELS (util.js), as quoted by the help text
VALID_CHANNELS == {"slack", "sms", "ios"}

\* 'https://www.slack.com/notifyme', the constant stored for a slack binding;
\* the handles notify.addBinding returns are the positive numbers
SlackMarker == 0

VARIABLES
    users,               \* app.js:40, identity -> (kind -> handle)
    requests,            \* subscribe requests: their addBinding calls and Promise.all
    accepted,            \* number of subscribe requests accepted so far
    gcmCalls,            \* the pending addBinding calls of POST /gcm
    gcmCount,            \* number of POST /gcm requests accepted so far
    writing,             \* snapshots handed to fs.writeFile, not yet written
    disk,                \* ./users.json
    deleteRequests,      \* bag of the handles passed to notify.deleteBinding
    sends,               \* the (subscriber, channel) sends of POST /lunch in flight
    dispatches,          \* number of POST /lunch requests handled
    failed,              \* whether a send has failed
    cater2MeMenu,        \* app.js:49, null or the content of the last successful load
    cater2MeMenuLoaded,  \* app.js:50, state of the promise created by each tick
    server,              \* "waiting", "binding", "listening" or "failed"
    hist,                \* outcomes of the settled menu loads, in settling order
    last                 \* what the last step did: the request it handled, its
                         \* response, the sends and the snapshot writes it started

registryVars == <<users, requests, accepted, gcmCalls, gcmCount, writing, disk,
                  deleteRequests>>
dispatchVars == <<sends, dispatches, failed>>
menuVars == <<cater2MeMenu, cater2MeMenuLoaded, server, hist>>
vars == <<users, requests, accepted, gcmCalls, gcmCount, writing, disk, deleteRequests,
          sends, dispatches, failed, cater2MeMenu, cater2MeMenuLoaded, server, hist, last>>

\* ----------------------------------------------------------------- helpers
EmptyMap == [x \in {} |-> 0]

\* an assignment that drops every other key of the object
PutAlone(obj, key, value) == [k \in {key} |-> value]

\* obj[key] = value on a JavaScript object
Put(obj, key, value) == [k \in DOMAIN obj \cup {key} |-> IF k = key THEN value ELSE obj[k]]

\* delete obj[key]
Delete(obj, key) == [k \in DOMAIN obj \ {key} |-> obj[k]]

\* the handle the provider issues for the binding of request r on a channel,
\* and for the binding of the g-th POST /gcm: all distinct
ChannelNo(channel) == CASE channel = "sms" -> 1 [] channel = "ios" -> 2 [] OTHER -> 3
HandleOf(r, channel) == 10 * r + ChannelNo(channel)

\* JSON.stringify(obj) of a registry: the text is modelled by the set of its
\* members, each an identity with the set of the members of its object
Stringify(obj) ==
    {<<i, {<<k, obj[i][k]>> : k \in DOMAIN obj[i]}>> : i \in DOMAIN obj}

\* JSON.parse(text) of such a text
Parse(text) ==
    [i \in {m[1] : m \in text} |->
        LET members == (CHOOSE m \in text : m[1] = i)[2]
        IN  [k \in {b[1] : b \in members} |->
                (CHOOSE b \in members : b[1] = k)[2]]]

\* users = JSON.parse(fs.readFileSync(file)), {} when that throws: the file
\* is missing, or what it holds is not JSON
LoadUsers(d) == IF d.state = "ok" THEN Parse(d.text) ELSE EmptyMap

\* ./users.json holding a registry, and holding part of a write or a mix of
\* two writes
FileOf(obj) == [state |-> "ok", text |-> Stringify(obj)]
Torn == [state |-> "corrupt", text |-> {}]

Reply(handler, identity, hit, status, body, sent, persists) ==
    [handler |-> handler, identity |-> identity, hit |-> hit, status |-> status,
     body |-> body, sent |-> sent, persists |-> persists, calls |-> {},
     thrown |-> FALSE, err |-> null, promise |-> [state |-> "-", value |-> null]]

\* a step that handles no request (a completion callback)
Callback(persists) == Reply("-", "-", FALSE, 0, "", EmptyMap, persists)

\* a completion callback that throws
Thrown == [Callback(0) EXCEPT !.thrown = TRUE]

Init ==
    /\ disk = [state |-> "missing", text |-> {}]
    /\ users = LoadUsers(disk)
    /\ requests = EmptyMap
    /\ accepted = 0
    /\ gcmCalls = EmptyMap
    /\ gcmCount = 0
    /\ writing = {}
    /\ deleteRequests = EmptyBag
    /\ sends = {}
    /\ dispatches = 0
    /\ failed = FALSE
    /\ cater2MeMenu = null
    /\ cater2MeMenuLoaded = <<"pending">>
    /\ server = "waiting"
    /\ hist = <<>>
    /\ last = Callback(0)

\* ------------------------------------------------- readiness gate, startup
\* cron fires onTick: a new load is started and cater2MeMenuLoaded replaced
Tick ==
    /\ Len(cater2MeMenuLoaded) < MaxTicks
    /\ cater2MeMenuLoaded' = Append(cater2MeMenuLoaded, "pending")
    /\ last' = Callback(0)
    /\ UNCHANGED <<registryVars, dispatchVars, cater2MeMenu, server, hist>>

\* Promise.all([cater2MeMenuLoaded]) was built from the promise of tick 1:
\* its reactions run right after that promise settles
OnInitialized(t, server0) == IF t = 1 /\ server0 = "waiting" THEN "binding" ELSE server0
OnInitFailedStartsAnyway(t, server0) ==
    IF t = 1 /\ server0 = "waiting" THEN "binding" ELSE server0

\* the rejection handler of app.js:276-279 logs and rethrows
OnInitFailed(t, server0) == IF t = 1 /\ server0 = "waiting" THEN "failed" ELSE server0

\* loadTodaysMenu() of tick t resolves with content m
LoadResolved(t, m) ==
    /\ t \in DOMAIN cater2MeMenuLoaded
    /\ cater2MeMenuLoaded[t] = "pending"
    /\ cater2MeMenu' = m
    /\ cater2MeMenuLoaded' = [cater2MeMenuLoaded EXCEPT ![t] = "fulfilled"]
    /\ server' = OnInitialized(t, server)
    /\ hist' = Append(hist, [tick |-> t, content |-> m])
    /\ last' = Callback(0)
    /\ UNCHANGED <<registryVars, dispatchVars>>

MenuClearedOnFailure(menu) == null

\* what the failure callback leaves in cater2MeMenu
MenuAfterFailure(menu) == menu

\* loadTodaysMenu() of tick t rejects
LoadRejected(t) ==
    /\ t \in DOMAIN cater2MeMenuLoaded
    /\ cater2MeMenuLoaded[t] = "pending"
    /\ cater2MeMenu' = MenuAfterFailure(cater2MeMenu)
    /\ cater2MeMenuLoaded' = [cater2MeMenuLoaded EXCEPT ![t] = "rejected"]
    /\ server' = OnInitFailed(t, server)
    /\ hist' = Append(hist, [tick |-> t, content |-> null])
    /\ last' = Callback(0)
    /\ UNCHANGED <<registryVars, dispatchVars>>

\* app.listen(port, ...): the socket is bound and requests are accepted
Listen ==
    /\ server = "binding"
    /\ server' = "listening"
    /\ last' = Callback(0)
    /\ UNCHANGED <<registryVars, dispatchVars, cater2MeMenu, cater2MeMenuLoaded, hist>>

\* GET /menu
MenuResponse(menu) ==
    IF menu = null THEN Reply("GET /menu", "-", FALSE, 503, "unavailable", EmptyMap, 0)
    ELSE Reply("GET /menu", "-", TRUE, 200, menu, EmptyMap, 0)
GetMenu ==
    /\ server = "listening"
    /\ last' = MenuResponse(cater2MeMenu)
    /\ UNCHANGED <<registryVars, dispatchVars, menuVars>>

\* ------------------------------------------------------ subscriber registry
\* a persistUsers that starts no write
PersistDropped(snapshot) == UNCHANGED writing

\* persistUsers(): JSON.stringify(users) is taken at the call, the write
\* completes later
persistUsers(snapshot) == writing' = writing \cup {snapshot}

NoPersist == UNCHANGED writing

\* Bookkeeping of the requests on an identity when an operation acts on it:
\* every request other than `except` no longer runs undisturbed, and when the
\* operation is a request handler (superseding) none of them is the current
\* registration of the identity any more
Touch(reqs, identity, except, superseding) ==
    [k \in DOMAIN reqs |->
        IF reqs[k].identity = identity /\ k # except
        THEN [reqs[k] EXCEPT !.undisturbed = FALSE,
                             !.current = @ /\ ~superseding]
        ELSE reqs[k]]

Pending(req) == {c \in DOMAIN req.att : req.att[c] = "pending"}

\* a request is forgotten once none of its calls is pending and it is no
\* longer the current registration of its identity
Retire(reqs) ==
    [k \in {j \in DOMAIN reqs : Pending(reqs[j]) # {} \/ reqs[j].current} |-> reqs[k]]

External(channels) == channels \ {"slack"}

NewUserWithoutSlack(channels) == EmptyMap

\* the object built by the forEach of the subscribe branch before any
\* addBinding call has completed
NewUser(channels) ==
    IF "slack" \in channels THEN Put(EmptyMap, "slack", SlackMarker) ELSE EmptyMap

\* Promise.all(promises) once the attempts are in state att
AllOf(att) ==
    IF \E c \in DOMAIN att : att[c] = "fail" THEN "rejected"
    ELSE IF \A c \in DOMAIN att : att[c] = "ok" THEN "fulfilled"
    ELSE "pending"

\* the reactions registered on Promise.all(promises) at app.js:171-176: the
\* number of persistUsers() calls made when it goes from `before` to `after`
PersistsWhenAll(before, after) ==
    IF before = "pending" /\ after = "fulfilled" THEN 1 ELSE 0

\* POST /users with a command that fails to parse
PostUsersMalformed ==
    /\ server = "listening"
    /\ last' = Reply("POST /users", "-", FALSE, 200, "help", EmptyMap, 0)
    /\ UNCHANGED <<registryVars, dispatchVars, menuVars>>

UnsubscribeDeletesEveryKind(bindings) ==
    SetToBag({bindings[k] : k \in DOMAIN bindings})

\* the deleteBinding calls of the unsubscribe branch
UnsubscribeDeletes(bindings) ==
    SetToBag({bindings[k] : k \in {b \in DOMAIN bindings : b # "slack"}})

UnsubscribePersistsAlways(reg, identity) == 1

\* the number of persistUsers() calls of the unsubscribe branch
UnsubscribePersists(reg, identity) == IF identity \in DOMAIN reg THEN 1 ELSE 0

\* POST /users "<identity>: stop"
Unsubscribe(identity) ==
    /\ server = "listening"
    /\ IF identity \in DOMAIN users
       THEN /\ deleteRequests' = deleteRequests (+) UnsubscribeDeletes(users[identity])
            /\ users' = Delete(users, identity)
       ELSE /\ UNCHANGED <<users, deleteRequests>>
    /\ IF UnsubscribePersists(users, identity) > 0 THEN persistUsers(users') ELSE NoPersist
    /\ requests' = Retire(Touch(requests, identity, 0, TRUE))
    /\ last' = Reply("unsubscribe", identity, identity \in DOMAIN users,
                     200, "unsubscribed", EmptyMap, UnsubscribePersists(users, identity))
    /\ UNCHANGED <<accepted, gcmCalls, gcmCount, disk, dispatchVars, menuVars>>

\* a rejection that comes after the user object was replaced
SubscribeNoChannelsAfterReset(identity) ==
    /\ server = "listening"
    /\ users' = Put(users, identity, EmptyMap)
    /\ last' = Reply("subscribe", identity, identity \in DOMAIN users,
                     200, "at least one valid channel", EmptyMap, 0)
    /\ UNCHANGED <<requests, accepted, gcmCalls, gcmCount, writing, disk,
                   deleteRequests, dispatchVars, menuVars>>

\* POST /users "<identity>: <tokens>" with no valid channel among the tokens
SubscribeNoChannels(identity) ==
    /\ server = "listening"
    /\ last' = Reply("subscribe", identity, identity \in DOMAIN users,
                     200, "at least one valid channel", EmptyMap, 0)
    /\ UNCHANGED <<registryVars, dispatchVars, menuVars>>

\* POST /users "<identity>: <channels>"
Subscribe(identity, channels) ==
    /\ server = "listening"
    /\ channels # {}
    /\ accepted < MaxRequests
    /\ accepted' = accepted + 1
    /\ users' = Put(users, identity, NewUser(channels))
    /\ LET att == [c \in External(channels) |-> "pending"]
           n == PersistsWhenAll("pending", AllOf(att))
       IN  /\ requests' = Put(Retire(Touch(requests, identity, 0, TRUE)), accepted',
                    [identity |-> identity, channels |-> channels, att |-> att,
                     all |-> AllOf(att), persisted |-> n, undisturbed |-> TRUE,
                     current |-> TRUE])
           /\ IF n > 0 THEN persistUsers(users') ELSE NoPersist
           /\ last' = Reply("subscribe", identity, identity \in DOMAIN users, 200,
                            IF identity \in DOMAIN users THEN "updated" ELSE "signed up",
                            EmptyMap, n)
    /\ UNCHANGED <<gcmCalls, gcmCount, disk, deleteRequests, dispatchVars, menuVars>>

\* notify.addBinding of request r for a channel resolves (app.js:153-156)
AddBindingResolved(r, channel) ==
    /\ r \in DOMAIN requests
    /\ channel \in DOMAIN requests[r].att
    /\ requests[r].att[channel] = "pending"
    /\ LET identity == requests[r].identity
       IN  IF identity \in DOMAIN users
           THEN LET att == [requests[r].att EXCEPT ![channel] = "ok"]
                    n == PersistsWhenAll(requests[r].all, AllOf(att))
                IN  /\ users' = [users EXCEPT ![identity] =
                                    Put(@, channel, HandleOf(r, channel))]
                    /\ requests' = Retire([Touch(requests, identity, r, FALSE) EXCEPT
                                    ![r].att = att, ![r].all = AllOf(att),
                                    ![r].persisted = @ + n])
                    /\ IF n > 0 THEN persistUsers(users') ELSE NoPersist
                    /\ last' = Callback(n)
           \* users[command.identity] is undefined: the callback throws a
           \* TypeError and the promise of this attempt never settles
           ELSE /\ requests' = Retire([requests EXCEPT ![r].att[channel] = "fault"])
                /\ UNCHANGED users
                /\ NoPersist
                /\ last' = Thrown
    /\ UNCHANGED <<accepted, gcmCalls, gcmCount, disk, deleteRequests, dispatchVars,
                   menuVars>>

\* notify.addBinding of request r for a channel rejects (app.js:157-160)
AddBindingRejected(r, channel) ==
    /\ r \in DOMAIN requests
    /\ channel \in DOMAIN requests[r].att
    /\ requests[r].att[channel] = "pending"
    /\ LET att == [requests[r].att EXCEPT ![channel] = "fail"]
           n == PersistsWhenAll(requests[r].all, AllOf(att))
       IN  /\ requests' = Retire([Touch(requests, requests[r].identity, r, FALSE) EXCEPT
                            ![r].att = att, ![r].all = AllOf(att),
                            ![r].persisted = @ + n])
           /\ IF n > 0 THEN persistUsers(users) ELSE NoPersist
           /\ last' = Callback(n)
    /\ UNCHANGED <<users, accepted, gcmCalls, gcmCount, disk, deleteRequests,
                   dispatchVars, menuVars>>

\* GET /users
ListUsers ==
    /\ server = "listening"
    /\ last' = Reply("GET /users", "-", TRUE, 200, "users", users, 0)
    /\ UNCHANGED <<registryVars, dispatchVars, menuVars>>

\* POST /gcm without User or Token
PostGcmBadRequest ==
    /\ server = "listening"
    /\ last' = Reply("POST /gcm", "-", FALSE, 400, "Must provide User and Token params",
                     EmptyMap, 0)
    /\ UNCHANGED <<registryVars, dispatchVars, menuVars>>

\* a POST /gcm that leaves an unknown user out of the registry
GcmUserIfKnown(reg, user) == reg

\* the registry after app.js:198-201: an unknown user is created, with no
\* binding
GcmUser(reg, user) == IF user \in DOMAIN reg THEN reg ELSE Put(reg, user, EmptyMap)

\* POST /gcm
PostGcm(user) ==
    /\ server = "listening"
    /\ gcmCount < MaxGcm
    /\ gcmCount' = gcmCount + 1
    /\ users' = GcmUser(users, user)
    /\ gcmCalls' = Put(gcmCalls, gcmCount', user)
    /\ requests' = Retire(Touch(requests, user, 0, TRUE))
    /\ last' = Reply("POST /gcm", user, user \in DOMAIN users, 200, "Registered GCM!",
                     EmptyMap, 0)
    /\ UNCHANGED <<accepted, writing, disk, deleteRequests, dispatchVars, menuVars>>

\* notify.addBinding of the g-th POST /gcm resolves, with a binding sid or
\* with a falsy value (app.js:203-209)
GcmResolved(g, hasSid) ==
    /\ g \in DOMAIN gcmCalls
    /\ gcmCalls' = Delete(gcmCalls, g)
    /\ LET user == gcmCalls[g]
       IN  IF ~hasSid
           THEN /\ requests' = Retire(Touch(requests, user, 0, TRUE))
                /\ UNCHANGED users
                /\ NoPersist
                /\ last' = Callback(0)
           ELSE IF user \in DOMAIN users
           THEN /\ users' = [users EXCEPT ![user] = Put(@, "chrome", HandleOf(g, "chrome"))]
                /\ requests' = Retire(Touch(requests, user, 0, TRUE))
                /\ persistUsers(users')
                /\ last' = Callback(1)
           \* users[user] is undefined: TypeError in the reaction
           ELSE /\ UNCHANGED <<users, requests>>
                /\ NoPersist
                /\ last' = Thrown
    /\ UNCHANGED <<accepted, gcmCount, disk, deleteRequests, dispatchVars, menuVars>>

\* notify.addBinding of the g-th POST /gcm rejects (app.js:210-212)
GcmRejected(g) ==
    /\ g \in DOMAIN gcmCalls
    /\ gcmCalls' = Delete(gcmCalls, g)
    /\ requests' = Retire(Touch(requests, gcmCalls[g], 0, TRUE))
    /\ last' = Callback(0)
    /\ UNCHANGED <<users, accepted, gcmCount, writing, disk, deleteRequests,
                   dispatchVars, menuVars>>

\* DELETE /gcm without User
DeleteGcmBadRequest ==
    /\ server = "listening"
    /\ last' = Reply("DELETE /gcm", "-", FALSE, 400, "Must provide User param",
                     EmptyMap, 0)
    /\ UNCHANGED <<registryVars, dispatchVars, menuVars>>

\* users[user] && users[user]['chrome']
HasChrome(reg, user) == user \in DOMAIN reg /\ "chrome" \in DOMAIN reg[user]

\* DELETE /gcm
DeleteGcm(user) ==
    /\ server = "listening"
    /\ IF HasChrome(users, user)
       THEN /\ deleteRequests' = deleteRequests (+) SetToBag({users[user]["chrome"]})
            /\ users' = [users EXCEPT ![user] = Delete(@, "chrome")]
            /\ persistUsers(users')
       ELSE /\ UNCHANGED <<users, deleteRequests>>
            /\ NoPersist
    /\ requests' = Retire(Touch(requests, user, 0, TRUE))
    /\ last' = Reply("DELETE /gcm", user, HasChrome(users, user), 204, "", EmptyMap,
                     IF HasChrome(users, user) THEN 1 ELSE 0)
    /\ UNCHANGED <<accepted, gcmCalls, gcmCount, disk, dispatchVars, menuVars>>

\* the promise persistUsers() returned, once fs.writeFile has called back
\* with err: the executor names its first parameter, the function that
\* fulfils the promise, `reject`, and its second, the function that rejects
\* it, `resolve`
persistUsersPromise(err) ==
    LET reject(value) == [state |-> "fulfilled", value |-> value]
        resolve(value) == [state |-> "rejected", value |-> value]
    IN  IF err # null THEN reject(err) ELSE resolve(undefined)

\* the callback passed to fs.writeFile, called with err
WriteCallback(err) ==
    [Callback(0) EXCEPT !.err = err, !.promise = persistUsersPromise(err)]

\* fs.writeFile completes without error: the file holds the snapshot
WriteDone(snapshot) ==
    /\ snapshot \in writing
    /\ writing' = writing \ {snapshot}
    /\ disk' = FileOf(snapshot)
    /\ last' = WriteCallback(null)
    /\ UNCHANGED <<users, requests, accepted, gcmCalls, gcmCount, deleteRequests,
                   dispatchVars, menuVars>>

\* fs.writeFile completes without error while another fs.writeFile on the
\* same file is in progress: each truncates the file and writes from offset
\* 0 through a descriptor of its own, so the file can end as a mix of the two
WriteGarbled(snapshot) ==
    /\ snapshot \in writing
    /\ writing \ {snapshot} # {}
    /\ writing' = writing \ {snapshot}
    /\ disk' = Torn
    /\ last' = WriteCallback(null)
    /\ UNCHANGED <<users, requests, accepted, gcmCalls, gcmCount, deleteRequests,
                   dispatchVars, menuVars>>

\* fs.writeFile completes with an error: the file is left as it was, or
\* truncated when the error came after it was opened
WriteFailed(snapshot) ==
    /\ snapshot \in writing
    /\ writing' = writing \ {snapshot}
    /\ disk' \in {disk, Torn}
    /\ last' = WriteCallback(WriteError)
    /\ UNCHANGED <<users, requests, accepted, gcmCalls, gcmCount, deleteRequests,
                   dispatchVars, menuVars>>

\* what the file holds when the process ends: what it held, or, with writes
\* in progress, also part of a write or the whole of one
FileAtExit(d, inProgress) ==
    {d} \cup (IF inProgress = {} THEN {} ELSE {Torn})
        \cup {FileOf(w) : w \in inProgress}

\* the process ends (process.exit at app.js:24, or a crash) and is started
\* again: app.js:39-74 run anew, the calls, writes and sends in flight are
\* gone; the provider keeps what it was asked
Restart ==
    /\ disk' \in FileAtExit(disk, writing)
    /\ users' = LoadUsers(disk')
    /\ requests' = EmptyMap
    /\ gcmCalls' = EmptyMap
    /\ writing' = {}
    /\ sends' = {}
    /\ cater2MeMenu' = null
    /\ cater2MeMenuLoaded' = <<"pending">>
    /\ server' = "waiting"
    /\ hist' = <<>>
    /\ last' = [Callback(0) EXCEPT !.handler = "start"]
    /\ UNCHANGED <<accepted, gcmCount, deleteRequests, dispatches, failed>>

\* ------------------------------------------------- notification dispatcher
\* the sends one iteration of the loop of POST /lunch starts for subscriber u
SendsFor(reg, u, menu) ==
    {[identity |-> u, via |-> "notify", context |-> null]}
    \cup (IF "slack" \in DOMAIN reg[u]
          THEN {[identity |-> u, via |-> "slack", context |-> menu]} ELSE {})

\* the sends the loop of POST /lunch starts
DispatchSends(reg, menu) == UNION {SendsFor(reg, u, menu) : u \in DOMAIN reg}

\* a handler that gives up when an earlier send has failed
DispatchUnlessFailed ==
    /\ server = "listening"
    /\ dispatches < MaxDispatch
    /\ dispatches' = dispatches + 1
    /\ LET calls == IF failed THEN {} ELSE DispatchSends(users, cater2MeMenu)
       IN  /\ sends' = sends \cup calls
           /\ last' = [Reply("POST /lunch", "-", TRUE, 200, "Notifying", EmptyMap, 0)
                          EXCEPT !.calls = calls]
    /\ UNCHANGED <<registryVars, failed, menuVars>>

\* POST /lunch
Dispatch ==
    /\ server = "listening"
    /\ dispatches < MaxDispatch
    /\ dispatches' = dispatches + 1
    /\ LET calls == DispatchSends(users, cater2MeMenu)
       IN  /\ sends' = sends \cup calls
           /\ last' = [Reply("POST /lunch", "-", TRUE, 200, "Notifying", EmptyMap, 0)
                          EXCEPT !.calls = calls]
    /\ UNCHANGED <<registryVars, failed, menuVars>>

\* a send started by POST /lunch completes; app.js drops its result
SendSettled(s, outcome) ==
    /\ s \in sends
    /\ sends' = sends \ {s}
    /\ failed' = (failed \/ outcome = "fail")
    /\ last' = Callback(0)
    /\ UNCHANGED <<registryVars, dispatches, menuVars>>

\* ------------------------------------------------------------ specifications
\* the first load, started by runOnInit, and the start of the server
Startup(M) ==
    \/ \E m \in M : LoadResolved(1, m)
    \/ LoadRejected(1)
    \/ Listen

\* the scheduled loads
Refresh ==
    \/ Tick
    \/ \E t \in DOMAIN cater2MeMenuLoaded, m \in Menus : LoadResolved(t, m)
    \/ \E t \in DOMAIN cater2MeMenuLoaded : LoadRejected(t)

\* registrations of the identities I with the channel sets CS, and the
\* completions of their addBinding calls
Register(I, CS) ==
    \/ \E i \in I, C \in CS : Subscribe(i, C)
    \/ \E r \in DOMAIN requests, c \in VALID_CHANNELS : AddBindingResolved(r, c)
    \/ \E r \in DOMAIN requests, c \in VALID_CHANNELS : AddBindingRejected(r, c)

\* POST /users for the identities I with the channel sets CS
PostUsers(I, CS) ==
    \/ \E i \in I : Unsubscribe(i)
    \/ Register(I, CS)

Rejections(I) ==
    \/ PostUsersMalformed
    \/ \E i \in I : SubscribeNoChannels(i)
    \/ PostGcmBadRequest
    \/ DeleteGcmBadRequest

Gcm(I) ==
    \/ \E i \in I : PostGcm(i)
    \/ \E g \in DOMAIN gcmCalls, hasSid \in BOOLEAN : GcmResolved(g, hasSid)
    \/ \E g \in DOMAIN gcmCalls : GcmRejected(g)
    \/ \E i \in I : DeleteGcm(i)

Writes ==
    \/ \E w \in writing : WriteDone(w)
    \/ \E w \in writing : WriteGarbled(w)
    \/ \E w \in writing : WriteFailed(w)

\* the snapshot writes when each of them succeeds and lands whole
Flushes == \E w \in writing : WriteDone(w)

Lunch ==
    \/ Dispatch
    \/ \E s \in sends, outcome \in {"ok", "fail"} : SendSettled(s, outcome)

ChannelSets == SUBSET VALID_CHANNELS \ {{}}

Next ==
    \/ Refresh
    \/ Listen
    \/ GetMenu
    \/ ListUsers
    \/ PostUsers(Identities, ChannelSets)
    \/ Rejections(Identities)
    \/ Gcm(Identities)
    \/ Writes
    \/ Restart
    \/ Lunch

Spec == Init /\ [][Next]_vars

\* the registrations of one identity, with every channel set
SpecSubscribe ==
    Init /\ [][Startup({"menuA"}) \/ PostUsers({"jdoe"}, ChannelSets) \/ ListUsers]_vars

\* one identity with registrations and the chrome binding of /gcm
SpecUnsubscribe ==
    Init /\ [][Startup({"menuA"}) \/ PostUsers({"jdoe"}, {{"slack", "sms"}})
                  \/ Gcm({"jdoe"})]_vars

\* two identities registered on sms or on slack and sms, and POST /lunch
SpecDispatch ==
    Init /\ [][Startup({"menuA"})
                  \/ Register(Identities, {{"sms"}, {"slack", "sms"}})
                  \/ Lunch]_vars

\* two identities registering on sms, unsubscribing and using /gcm
SpecTwo ==
    Init /\ [][Startup({"menuA"}) \/ Register(Identities, {{"sms"}})
                  \/ Gcm({"asmith"})]_vars

\* one identity registering on slack, unsubscribing and using /gcm, with the
\* snapshot writes completing or failing
SpecPersist ==
    Init /\ [][Startup({"menuA"}) \/ Subscribe("jdoe", {"slack"}) \/ Unsubscribe("jdoe")
                  \/ Gcm({"jdoe"}) \/ Writes]_vars

\* one identity registering on slack and unsubscribing, the snapshot writes,
\* and the process ending and starting again
SpecCrash ==
    Init /\ [][Startup({"menuA"}) \/ Subscribe("jdoe", {"slack"}) \/ Unsubscribe("jdoe")
                  \/ Writes \/ Restart]_vars

\* one identity registering on slack and sms and unsubscribing, and the
\* requests that are rejected
SpecReject ==
    Init /\ [][Startup({"menuA"}) \/ PostUsers({"jdoe"}, {{"slack", "sms"}})
                  \/ Rejections({"jdoe"})]_vars

\* one identity and every kind of request: registration on slack,
\* unsubscribe, /gcm, the snapshot writes, GET /users, GET /menu, POST /lunch
SpecLifecycle ==
    Init /\ [][Startup({"menuA"}) \/ Subscribe("jdoe", {"slack"}) \/ Unsubscribe("jdoe")
                  \/ Gcm({"jdoe"}) \/ Flushes \/ ListUsers \/ GetMenu \/ Dispatch]_vars

\* the readiness gate: the loads, the start of the server and GET /menu
MenuNext == Refresh \/ Listen \/ GetMenu
SpecMenu == Init /\ [][MenuNext]_vars

\* app.listen, once called, does bind the socket
FairSpecMenu == SpecMenu /\ WF_vars(Listen)

\* ------------------------------------------------------------------ claims
Settled(req) == Pending(req) = {}

\* the binding set a registration should leave: the slack marker, and the
\* handle of every binding that was created
Expected(r, req) ==
    [c \in {k \in req.channels : k = "slack" \/ req.att[k] = "ok"} |->
        IF c = "slack" THEN SlackMarker ELSE HandleOf(r, c)]

\* C1: once every binding creation of a registration of identity i has
\* settled and no other operation (handler or callback) has acted on i since
\* the registration was accepted, i is present and its bindings are exactly
\* the slack marker (if requested) and the handles of the channels whose
\* creation succeeded, which is the empty set when all failed; GET /users
\* sends the registry as it is.
C1_SubscribeBindings ==
    /\ \A r \in DOMAIN requests :
          (requests[r].undisturbed /\ Settled(requests[r])) =>
              /\ requests[r].identity \in DOMAIN users
              /\ users[requests[r].identity] = Expected(r, requests[r])
    /\ last.handler = "GET /users" => last.sent = users

\* C1 witness: a registration with one binding created and one failed,
\* undisturbed, then listed
C1_Witness ==
    /\ last.handler = "GET /users"
    /\ \E r \in DOMAIN requests :
          /\ requests[r].undisturbed
          /\ Settled(requests[r])
          /\ \E c, d \in DOMAIN requests[r].att :
                requests[r].att[c] = "ok" /\ requests[r].att[d] = "fail"

\* C2: every accepted registration starts exactly one snapshot write, not
\* before all of its binding creations have completed, and does so whether
\* they succeeded or failed.
C2_PersistOnce ==
    \A r \in DOMAIN requests :
        /\ ~Settled(requests[r]) => requests[r].persisted = 0
        /\ Settled(requests[r]) => requests[r].persisted = 1

\* C3: once every callback of the registrations of identity i has settled,
\* the binding keys of i are among the channels of the registration accepted
\* last, whatever the interleaving with the earlier registrations.
C3_Replaces ==
    \A r \in DOMAIN requests :
        (/\ requests[r].current
         /\ \A k \in DOMAIN requests :
               requests[k].identity = requests[r].identity => Settled(requests[k])
         /\ requests[r].identity \in DOMAIN users)
        => DOMAIN users[requests[r].identity] \subseteq requests[r].channels

\* the number of deleteBinding requests a step makes for handle h
Requested(h) == CopiesIn(h, deleteRequests') - CopiesIn(h, deleteRequests)

\* C4: unsubscribing a present identity requests deleteBinding once for the
\* handle of each binding other than slack and for nothing else, removes the
\* identity from the registry and starts one write, of the registry without it.
C4_Unsubscribe ==
    [][\A i \in Identities :
          (last'.handler = "unsubscribe" /\ last'.identity = i /\ i \in DOMAIN users) =>
              /\ \A h \in BagToSet(deleteRequests') \cup {users[i][k] : k \in DOMAIN users[i]} :
                    Requested(h) =
                        IF \E k \in DOMAIN users[i] \ {"slack"} : users[i][k] = h
                        THEN 1 ELSE 0
              /\ i \notin DOMAIN users'
              /\ \A j \in DOMAIN users \ {i} : j \in DOMAIN users' /\ users'[j] = users[j]
              /\ last'.persists = 1
              /\ users' \in writing']_vars

\* C4 witness: an identity with a slack, an sms and a chrome binding has been
\* unsubscribed
C4_Witness ==
    /\ last.handler = "unsubscribe"
    /\ last.hit
    /\ \E h \in BagToSet(deleteRequests) : h % 10 = ChannelNo("chrome")
    /\ \E h \in BagToSet(deleteRequests) : h % 10 = ChannelNo("sms")
    /\ \E w \in writing : \E i \in DOMAIN w : "slack" \in DOMAIN w[i]

Started(u, via) == \E s \in last.calls : s.identity = u /\ s.via = via

\* the send capability of a binding kind
Capability(kind) == IF kind = "slack" THEN "slack" ELSE "notify"

\* C6: POST /lunch answers 'Notifying' and has started, for every subscriber
\* in the registry and every channel bound to it, the send of that channel,
\* whatever the outcomes of earlier sends and also with an empty registry.
C6_DispatchIndependent ==
    last.handler = "POST /lunch" =>
        /\ last.status = 200 /\ last.body = "Notifying"
        /\ \A u \in DOMAIN users : \A k \in DOMAIN users[u] : Started(u, Capability(k))

\* C6 witness: a dispatch over two subscribers, one of them with two
\* channels, after a send of an earlier dispatch has failed
C6_Witness ==
    /\ last.handler = "POST /lunch"
    /\ failed
    /\ Cardinality(DOMAIN users) = 2
    /\ \E u \in DOMAIN users : {"slack", "sms"} \subseteq DOMAIN users[u]

\* C7: POST /lunch starts the slack send for u exactly when u has a slack
\* binding, and the notify send for u exactly when u has a binding other
\* than slack.
C7_SendsMatchBindings ==
    last.handler = "POST /lunch" =>
        \A u \in Identities :
            /\ Started(u, "slack") <=> (u \in DOMAIN users /\ "slack" \in DOMAIN users[u])
            /\ Started(u, "notify") <=>
                  (u \in DOMAIN users /\ DOMAIN users[u] \ {"slack"} # {})

\* the content stored by the successful load that settled last, null if none
RECURSIVE LastLoaded(_)
LastLoaded(h) ==
    IF h = <<>> THEN null
    ELSE IF h[Len(h)].content # null THEN h[Len(h)].content
    ELSE LastLoaded(SubSeq(h, 1, Len(h) - 1))

\* C8: GET /menu answers 503 while no load has succeeded and otherwise 200
\* with the content of the successful load that settled last; failed loads
\* in between change nothing.
C8_MenuRead ==
    last.handler = "GET /menu" =>
        IF LastLoaded(hist) = null
        THEN last.status = 503 /\ last.body = "unavailable"
        ELSE last.status = 200 /\ last.body = LastLoaded(hist)

\* C8 witness: the menu is read after a successful load followed by a
\* failed one
C8_Witness ==
    /\ last.handler = "GET /menu"
    /\ Len(hist) >= 2
    /\ hist[Len(hist)].content = null
    /\ hist[Len(hist) - 1].content # null
    /\ last.status = 200

FirstSettled == \E k \in DOMAIN hist : hist[k].tick = 1
FirstSucceeded == \E k \in DOMAIN hist : hist[k].tick = 1 /\ hist[k].content # null
Serving == server = "listening" \/ last.handler # "-"

\* C9: the service serves no request before the first load has settled, and
\* once the first load has settled, with success or with failure, it
\* eventually serves.
C9_ServesAfterFirstLoad ==
    /\ [](Serving => FirstSettled)
    /\ FirstSettled ~> (server = "listening")

\* C10: whenever app.listen has been called or the service is serving, the
\* first load succeeded: after a failed first load the service never listens,
\* whatever the later loads do.
C10_ListeningOnlyAfterSuccess ==
    (server \in {"binding", "listening"} \/ Serving) => FirstSucceeded

\* C10 witness: the first load failed, a later load succeeded, and the
\* service is not listening
C10_Witness ==
    /\ FirstSettled /\ ~FirstSucceeded
    /\ cater2MeMenu # null
    /\ server = "failed"

\* the step belongs to an operation on identity i: it is a handler of a
\* request for i, or the completion of an addBinding call made for i
ActsOn(i) ==
    \/ last'.identity = i
    \/ \E r \in DOMAIN requests :
          /\ requests[r].identity = i
          /\ Pending(requests[r]) # {}
          /\ r \in DOMAIN requests' => Pending(requests'[r]) # Pending(requests[r])
    \/ \E g \in DOMAIN gcmCalls \ DOMAIN gcmCalls' : gcmCalls[g] = i

\* C11: every step belongs to an operation on at most one identity, and the
\* steps of the operations on an identity i, handlers and binding-creation
\* callbacks alike, leave the presence and the bindings of every other
\* identity j as they were, so the bindings of j are those that the
\* operations on j alone produce.
C11_OtherIdentityUntouched ==
    [][/\ Cardinality({i \in Identities : ActsOn(i)}) <= 1
       /\ \A j \in Identities :
             ~ActsOn(j) =>
                 /\ j \in DOMAIN users' <=> j \in DOMAIN users
                 /\ j \in DOMAIN users => users'[j] = users[j]]_vars

\* C11 witness: the registration of one identity was accepted and its
\* binding created while an earlier registration of the other identity is
\* still waiting for its binding
C11_Witness ==
    \E r, k \in DOMAIN requests :
        /\ r < k
        /\ requests[r].identity # requests[k].identity
        /\ Pending(requests[r]) # {}
        /\ requests[k].att = [c \in {"sms"} |-> "ok"]
        /\ requests[k].identity \in DOMAIN users
        /\ users[requests[k].identity] = Expected(k, requests[k])
        /\ requests[r].identity \in DOMAIN users
        /\ users[requests[r].identity] = EmptyMap

\* the response of a mutating handler, given the request and whether the
\* identity was in the registry
ResponseOf(handler, present) ==
    CASE handler = "unsubscribe" -> <<200, "unsubscribed">>
      [] handler = "subscribe" -> <<200, IF present THEN "updated" ELSE "signed up">>
      [] handler = "POST /gcm" -> <<200, "Registered GCM!">>
      [] handler = "DELETE /gcm" -> <<204, "">>

\* C12: the step in which Subscribe, Unsubscribe, POST /gcm or DELETE /gcm
\* sends its response completes no snapshot write, the response is fixed by
\* the request and the in-memory registry alone (not by the file or by the
\* writes in progress), and a write started by any step is still in progress
\* after that step: it completes, or fails, in a later step of its own.
C12_ResponseBeforeWrite ==
    [][/\ last'.handler \in {"subscribe", "unsubscribe", "POST /gcm", "DELETE /gcm"} =>
             /\ disk' = disk
             /\ writing \subseteq writing'
             /\ <<last'.status, last'.body>> =
                    ResponseOf(last'.handler, last'.identity \in DOMAIN users)
       /\ last'.persists > 0 =>
             /\ disk' = disk
             /\ writing' = writing \cup {users'}]_vars

\* C12 witness: DELETE /gcm has answered 204 and its write is in progress,
\* after the write of the chrome binding failed
C12_Witness ==
    /\ last.handler = "DELETE /gcm"
    /\ last.hit
    /\ last.status = 204
    /\ writing = {users}
    /\ disk.state = "missing"

\* C13: when the process starts again, the registry it loads is the mapping
\* of the last snapshot write that completed before it ended, that is what
\* the file held then, or that of a write that was in progress and reached
\* the file whole; with a missing or unparseable file the load gives the
\* empty registry.
C13_RestartLoadsLastWrite ==
    [][last'.handler = "start" =>
          /\ users' = LoadUsers(disk) \/ users' \in writing
          /\ disk.state # "ok" /\ writing = {} => users' = EmptyMap]_vars

\* the request just handled was rejected at the request boundary
NoValidChannels == last'.handler = "subscribe" /\ last'.body = "at least one valid channel"
ParseFailure == last'.handler = "POST /users" /\ last'.body = "help"

\* C14: a registration command with no valid channel is answered with the
\* 'at least one valid channel' message and a command that fails to parse
\* with the help text, and neither has any effect: the registry, with the
\* bindings the identity already had, is unchanged, no binding creation or
\* deletion is requested and no snapshot write is started.
C14_RejectedHasNoEffect ==
    [][(NoValidChannels \/ ParseFailure) =>
          /\ last'.status = 200
          /\ users' = users
          /\ requests' = requests /\ accepted' = accepted
          /\ gcmCalls' = gcmCalls /\ gcmCount' = gcmCount
          /\ deleteRequests' = deleteRequests
          /\ writing' = writing /\ last'.persists = 0
          /\ disk' = disk]_vars

\* C14 witness: a command with no valid channel is rejected for an identity
\* that has a slack and an sms binding, while a later registration of it is
\* waiting for its binding
C14_Witness ==
    /\ last.handler = "subscribe"
    /\ last.body = "at least one valid channel"
    /\ last.hit
    /\ "jdoe" \in DOMAIN users
    /\ DOMAIN users["jdoe"] = {"slack", "sms"}
    /\ \E r \in DOMAIN requests : Pending(requests[r]) # {}

\* the step makes identity i present, or absent
Appears(i) == i \notin DOMAIN users /\ i \in DOMAIN users'
Disappears(i) == i \in DOMAIN users /\ i \notin DOMAIN users'
Handled(handler, i) == last'.handler = handler /\ last'.identity = i

\* C15: an identity becomes present only through a Subscribe for it and
\* absent only through an Unsubscribe for it; no other operation changes
\* which identities are in the registry.
C15_OnlySubscribeCreates ==
    [][\A i \in Identities :
          /\ Appears(i) => Handled("subscribe", i)
          /\ Disappears(i) => Handled("unsubscribe", i)]_vars

\* C15 amended: an identity becomes present only through a Subscribe for it
\* or through a POST /gcm for it, which creates an unknown user with no
\* binding, and absent only through an Unsubscribe for it; GET /users,
\* POST /lunch, GET /menu, DELETE /gcm, the completion callbacks and the
\* snapshot writes never change which identities are in the registry. After
\* a Subscribe or a POST /gcm the identity is present, after an Unsubscribe
\* it is absent.
C15_Transitions ==
    [][\A i \in Identities :
          /\ Appears(i) =>
                \/ Handled("subscribe", i)
                \/ Handled("POST /gcm", i) /\ users'[i] = EmptyMap
          /\ Disappears(i) => Handled("unsubscribe", i)
          /\ Handled("subscribe", i) \/ Handled("POST /gcm", i) => i \in DOMAIN users'
          /\ Handled("unsubscribe", i) => i \notin DOMAIN users']_vars

\* C15 witness: POST /gcm has just been handled for an identity that a
\* registration made present and an unsubscribe absent again
C15_Witness ==
    /\ last.handler = "POST /gcm"
    /\ ~last.hit
    /\ accepted > 0
    /\ DOMAIN users = {"jdoe"}
    /\ users["jdoe"] = EmptyMap

\* C16: when a snapshot write has completed, the promise that persistUsers
\* returned for it is fulfilled if the write succeeded, and rejected with
\* the write error if it failed.
C16_PromiseTellsOutcome ==
    last.promise.state # "-" =>
        IF last.err = null
        THEN last.promise.state = "fulfilled"
        ELSE last.promise = [state |-> "rejected", value |-> last.err]

\* C17: no completion callback throws, whatever the interleaving: a
\* binding-creation callback that runs after its identity was unsubscribed
\* completes, leaves the identity absent, and the attempt it belongs to
\* settles, so that the Promise.all of its registration settles too.
C17_NoUncaughtError ==
    /\ ~last.thrown
    /\ \A r \in DOMAIN requests :
          /\ \A c \in DOMAIN requests[r].att : requests[r].att[c] # "fault"
          /\ Pending(requests[r]) = {} => requests[r].all # "pending"

\* no addBinding call, no send and no snapshot write is in progress
Quiescent ==
    /\ \A r \in DOMAIN requests : Pending(requests[r]) = {}
    /\ gcmCalls = EmptyMap
    /\ sends = {}
    /\ writing = {}

\* C18: whenever nothing is in progress, and every snapshot write so far
\* succeeded, the registry that a load of the file gives is the in-memory
\* registry.
C18_Flushed == Quiescent => LoadUsers(disk) = users

\* the handles of the provider's bindings that a registry holds
Handles(reg) ==
    UNION {{reg[i][k] : k \in DOMAIN reg[i] \ {"slack"}} : i \in DOMAIN reg}

\* handles known to have been returned by a successful addBinding: those in
\* the registry and those that a snapshot, written or being written, records
Recorded ==
    Handles(users) \cup Handles(LoadUsers(disk)) \cup UNION {Handles(w) : w \in writing}

NoCallbackPending ==
    /\ \A r \in DOMAIN requests : Pending(requests[r]) = {}
    /\ gcmCalls = EmptyMap

\* C19: whenever no addBinding callback is pending, every handle that a
\* successful addBinding returned is in the registry or has been passed to
\* deleteBinding; stated for the handles that a snapshot records, each of
\* which was returned by a successful addBinding.
C19_NoOrphan ==
    NoCallbackPending =>
        \A h \in Recorded : h \in Handles(users) \/ CopiesIn(h, deleteRequests) > 0

====
